---- MODULE Spec2Model ----
(***************************************************************************)
(* Model of verify-doc-links.py: the documentation link checker.           *)
(*                                                                         *)
(* Text is modelled as TLA+ strings, read character by character.  A       *)
(* pure path (pathlib.PurePosixPath) is a record [abs, parts]; a resolved  *)
(* path is the sequence of its segments below the filesystem root.  The    *)
(* filesystem holds regular files and directories only (no symbolic        *)
(* links), and every existence check is permitted.                         *)
(***************************************************************************)
EXTENDS Integers, Sequences, FiniteSets, TLC

VARIABLES
    files,          \* filesystem: resolved path of a regular file -> its text
    dirs,           \* filesystem: resolved paths of the directories
    unreadable,     \* discovered paths whose open()/read() raises
    pc,             \* position in main(): start, loop, done, crashed
    all_files,      \* main: all_files
    processed,      \* main: the files the for loop has opened so far
    total_links,    \* main: total_links
    broken_links,   \* main: broken_links
    out,            \* what main() has printed, one tag per print block
    ret,            \* main's return value; NoReturn while it has none
    run,            \* number of the current run of the tool
    prev,           \* report of the previous run (see CreateTargetAndRerun)
    created,        \* paths created between the previous run and this one
    content,        \* extract_links: argument content
    file_type,      \* extract_links: argument file_type
    result,         \* extract_links: returned list
    epc             \* extract_links: call or done

vars == <<files, dirs, unreadable, pc, all_files, processed, total_links,
          broken_links, out, ret, run, prev, created,
          content, file_type, result, epc>>

mainVars == <<files, dirs, unreadable, pc, all_files, processed, total_links,
              broken_links, out, ret, run, prev, created>>

extractVars == <<content, file_type, result, epc>>

(***************************************************************************)
(* Bounds                                                                  *)
(***************************************************************************)
\* number of text pieces concatenated into one content string
MaxPieces == 3
\* number of runs of the tool in one behaviour
MaxRuns == 2
\* number of discovered files that may be unreadable
MaxUnreadable == 1

(***************************************************************************)
(* Strings                                                                 *)
(***************************************************************************)
\* the character of s at position i, "" outside the string
Ch(s, i) == IF i \in 1..Len(s) THEN SubSeq(s, i, i) ELSE ""

\* str.startswith with a single prefix
startswith(s, p) == Len(s) >= Len(p) /\ SubSeq(s, 1, Len(p)) = p

\* index of the first c in s at or after i, 0 when there is none
Find(s, c, i) ==
    LET hits == {j \in i..Len(s) : Ch(s, j) = c}
    IN  IF hits = {} THEN 0
        ELSE CHOOSE j \in hits : \A k \in hits : j <= k

\* index of the last c in s, 0 when there is none
RFind(s, c) ==
    LET hits == {j \in 1..Len(s) : Ch(s, j) = c}
    IN  IF hits = {} THEN 0
        ELSE CHOOSE j \in hits : \A k \in hits : j >= k

(***************************************************************************)
(* extract_links                                                           *)
(***************************************************************************)
NoMatch == [ok |-> FALSE, start |-> 0, end |-> 0, g1 |-> "", g2 |-> ""]

\* re match of \[([^\]]+)\]\(([^)]+)\) anchored at position i
MdMatchAt(s, i) ==
    IF Ch(s, i) # "[" THEN NoMatch
    ELSE LET j == Find(s, "]", i + 1)
         IN  IF j <= i + 1 \/ Ch(s, j + 1) # "(" THEN NoMatch
             ELSE LET k == Find(s, ")", j + 2)
                  IN  IF k <= j + 2 THEN NoMatch
                      ELSE [ok |-> TRUE, start |-> i, end |-> k,
                            g1 |-> SubSeq(s, i + 1, j - 1),
                            g2 |-> SubSeq(s, j + 2, k - 1)]

\* re match of link:([^\[]+)\[([^\]]+)\] anchored at position i
AdocMatchAt(s, i) ==
    IF i + 4 > Len(s) \/ SubSeq(s, i, i + 4) # "link:" THEN NoMatch
    ELSE LET j == Find(s, "[", i + 5)
         IN  IF j <= i + 5 THEN NoMatch
             ELSE LET k == Find(s, "]", j + 1)
                  IN  IF k <= j + 1 THEN NoMatch
                      ELSE [ok |-> TRUE, start |-> i, end |-> k,
                            g1 |-> SubSeq(s, i + 5, j - 1),
                            g2 |-> SubSeq(s, j + 1, k - 1)]

pattern(s, i, ft) == IF ft = "md" THEN MdMatchAt(s, i) ELSE AdocMatchAt(s, i)

\* re.findall: leftmost, non-overlapping matches scanning from position i
RECURSIVE findall(_, _, _)
findall(s, i, ft) ==
    IF i > Len(s) THEN <<>>
    ELSE LET m == pattern(s, i, ft)
         IN  IF m.ok THEN <<m>> \o findall(s, m.end + 1, ft)
             ELSE findall(s, i + 1, ft)

\* the prefix tuple with its last entry forgotten
ExcludedPrefixesNoMailto == {"http://", "https://", "#"}

ExcludedPrefixes == {"http://", "https://", "#", "mailto:"}

\* url.startswith(("http://", "https://", "#", "mailto:"))
IsExcluded(url) == \E p \in ExcludedPrefixes : startswith(url, p)

\* the Markdown groups taken in the order of the AsciiDoc ones
LinkOfUnswapped(m, ft) == [url |-> m.g1, text |-> m.g2]

\* the (url, text) pair the list comprehension builds from one match
LinkOf(m, ft) ==
    IF ft = "md" THEN [url |-> m.g2, text |-> m.g1]
    ELSE [url |-> m.g1, text |-> m.g2]

extract_links(c, ft) ==
    LET matches == findall(c, 1, ft)
        kept == SelectSeq(matches, LAMBDA m : ~IsExcluded(LinkOf(m, ft).url))
    IN  [n \in 1..Len(kept) |-> LinkOf(kept[n], ft)]

(***************************************************************************)
(* Paths (pathlib on POSIX)                                                *)
(***************************************************************************)
\* the working directory of the process, as a resolved path
cwd == <<"w">>

\* str.split("/") from position i, cur being the segment read so far
RECURSIVE SplitFrom(_, _, _)
SplitFrom(s, i, cur) ==
    IF i > Len(s) THEN <<cur>>
    ELSE IF Ch(s, i) = "/" THEN <<cur>> \o SplitFrom(s, i + 1, "")
    ELSE SplitFrom(s, i + 1, cur \o Ch(s, i))

\* Path(str): empty and "." segments are dropped, a leading "/" makes it
\* absolute
ParsePath(s) ==
    [abs |-> startswith(s, "/"),
     parts |-> SelectSeq(SplitFrom(s, 1, ""), LAMBDA g : g # "" /\ g # ".")]

\* a join that appends the segments of q whatever q is
JoinPathAppends(p, q) == [abs |-> p.abs, parts |-> p.parts \o q.parts]

\* Path.__truediv__: an absolute right operand replaces the left one
JoinPath(p, q) ==
    IF q.abs THEN q
    ELSE [abs |-> p.abs, parts |-> p.parts \o q.parts]

\* removal of ".." segments, left to right; ".." at the root stays there
RECURSIVE Normalize(_, _)
Normalize(acc, parts) ==
    IF parts = <<>> THEN acc
    ELSE IF Head(parts) = ".."
         THEN Normalize(IF acc = <<>> THEN acc
                        ELSE SubSeq(acc, 1, Len(acc) - 1), Tail(parts))
         ELSE Normalize(Append(acc, Head(parts)), Tail(parts))

\* Path.resolve(): made absolute against cwd, then normalised
resolve(p) ==
    Normalize(<<>>, IF p.abs THEN p.parts ELSE cwd \o p.parts)

\* Path.parent
parent(p) ==
    [abs |-> p.abs,
     parts |-> IF p.parts = <<>> THEN <<>>
               ELSE SubSeq(p.parts, 1, Len(p.parts) - 1)]

\* Path.name
name(p) == IF p.parts = <<>> THEN "" ELSE p.parts[Len(p.parts)]

\* Path.suffix
suffix(p) ==
    LET n == name(p)
        i == RFind(n, ".")
    IN  IF 1 < i /\ i < Len(n) THEN SubSeq(n, i, Len(n)) ELSE ""

\* an existence test that takes an empty regular file for a missing one
ExistsInNonEmpty(fs, ds, t) ==
    t = <<>> \/ t \in ds \/ (t \in DOMAIN fs /\ fs[t] # "")

\* Path.exists() of a resolved path in the filesystem (fs, ds)
ExistsIn(fs, ds, t) == t = <<>> \/ t \in ds \/ t \in DOMAIN fs

exists(t) == ExistsIn(files, dirs, t)

IsPrefix(a, b) == Len(a) <= Len(b) /\ SubSeq(b, 1, Len(a)) = a

\* fnmatch of a file name against "*" \o ext
NameMatches(n, ext) ==
    Len(n) >= Len(ext) /\ SubSeq(n, Len(n) - Len(ext) + 1, Len(n)) = ext

docs_dir == [abs |-> FALSE, parts |-> <<"docs">>]

\* the orders in which one os.scandir may yield the set S
Orders(S) ==
    {o \in [1..Cardinality(S) -> S] :
        \A i, j \in 1..Cardinality(S) : i # j => o[i] # o[j]}

\* the entries of directory d in the filesystem (fs, ds)
Children(fs, ds, d) ==
    {u \in DOMAIN fs \cup ds : Len(u) = Len(d) + 1 /\ IsPrefix(d, u)}

\* the sequences a recursive walk from directory d may yield for the pattern
\* "*" \o ext: the matching entries of d in scandir order, then the walk of
\* each subdirectory of d, the subdirectories in scandir order too
RECURSIVE WalkOrders(_, _, _, _), SubWalks(_, _, _, _, _)
WalkOrders(fs, ds, d, ext) ==
    LET hits == {u \in Children(fs, ds, d) : NameMatches(u[Len(u)], ext)}
        subs == Children(fs, ds, d) \cap ds
    IN  {h \o t : h \in Orders(hits),
                  t \in UNION {SubWalks(fs, ds, so, 1, ext) :
                                  so \in Orders(subs)}}

SubWalks(fs, ds, so, i, ext) ==
    IF i > Len(so) THEN {<<>>}
    ELSE {a \o b : a \in WalkOrders(fs, ds, so[i], ext),
                   b \in SubWalks(fs, ds, so, i + 1, ext)}

\* the path below cwd as the relative path the walk from Path("docs") yields
Relative(t) == [abs |-> FALSE, parts |-> SubSeq(t, Len(cwd) + 1, Len(t))]

\* the lists list(docs_dir.rglob("*" \o ext)) may be in the filesystem
\* (fs, ds)
RglobIn(fs, ds, ext) ==
    {[n \in 1..Len(w) |-> Relative(w[n])] :
        w \in IF resolve(docs_dir) \in ds
              THEN WalkOrders(fs, ds, resolve(docs_dir), ext)
              ELSE {<<>>}}

rglob(ext) == RglobIn(files, dirs, ext)

(***************************************************************************)
(* check_link_exists                                                       *)
(***************************************************************************)
\* check_link_exists joining the targets that do not start with "../" onto docs/
CheckInDocsRoot(fs, ds, source_file, link_path) ==
    LET source_dir == parent(source_file)
        target == IF startswith(link_path, "../")
                  THEN resolve(JoinPath(source_dir, ParsePath(link_path)))
                  ELSE resolve(JoinPath(docs_dir, ParsePath(link_path)))
    IN  [exists |-> ExistsIn(fs, ds, target), target |-> target]

\* check_link_exists cutting the target at its first "#" before resolving it
CheckInFragmentCut(fs, ds, source_file, link_path) ==
    LET source_dir == parent(source_file)
        h == Find(link_path, "#", 1)
        path == IF h = 0 THEN link_path ELSE SubSeq(link_path, 1, h - 1)
        target == resolve(JoinPath(source_dir, ParsePath(path)))
    IN  [exists |-> ExistsIn(fs, ds, target), target |-> target]

CheckIn(fs, ds, source_file, link_path) ==
    LET source_dir == parent(source_file)
        target == IF startswith(link_path, "../")
                  THEN resolve(JoinPath(source_dir, ParsePath(link_path)))
                  ELSE resolve(JoinPath(source_dir, ParsePath(link_path)))
    IN  [exists |-> ExistsIn(fs, ds, target), target |-> target]

check_link_exists(source_file, link_path) ==
    CheckIn(files, dirs, source_file, link_path)

(***************************************************************************)
(* The documentation trees the tool is run on                              *)
(***************************************************************************)
DocsRoot == cwd \o <<"docs">>
SourceIndex == cwd \o <<"docs", "index.md">>
SourceB == cwd \o <<"docs", "a", "b.md">>
SourceGuide == cwd \o <<"docs", "guide.adoc">>

MdContents ==
    {"[Guide](c.md)",
     "[Up](../c.md) and [Abs](/c.md)",
     "[Frag](other.md#section), [Ext](https://example.com/x)",
     "[Missing](nope.md) [Sub](sub/x.png) [Dir](sub)"}

AdocContents ==
    {"link:c.md[C Page]",
     "link:https://example.com[Ext] link:nope.adoc[N]"}

\* files that may exist next to the sources, all empty
OptionalFiles ==
    {cwd \o <<"docs", "c.md">>, <<"c.md">>, cwd \o <<"docs", "other.md">>}

Absent == [present |-> FALSE, text |-> ""]
Choice(S) == {Absent} \cup {[present |-> TRUE, text |-> c] : c \in S}

\* the non-root proper prefixes of the paths in P
ParentsOf(P) == UNION {{SubSeq(t, 1, n) : n \in 1..(Len(t) - 1)} : t \in P}

TreeFiles(ci, cb, cg, opt) ==
    LET src == (IF ci.present THEN {SourceIndex} ELSE {})
               \cup (IF cb.present THEN {SourceB} ELSE {})
               \cup (IF cg.present THEN {SourceGuide} ELSE {})
    IN  [t \in src \cup opt |->
            IF t = SourceIndex THEN ci.text
            ELSE IF t = SourceB THEN cb.text
            ELSE IF t = SourceGuide THEN cg.text
            ELSE ""]

NoReport == [valid |-> FALSE, total |-> 0, broken |-> <<>>]

InitRun ==
    /\ pc = "start"
    /\ all_files = <<>>
    /\ processed = <<>>
    /\ total_links = 0
    /\ broken_links = <<>>
    /\ out = <<>>
    /\ ret = <<>>

ExtractIdle ==
    /\ content = ""
    /\ file_type = "md"
    /\ result = <<>>
    /\ epc = "idle"

Init ==
    /\ \E hasDocs \in BOOLEAN :
       \E ci \in Choice(MdContents), cb \in Choice(MdContents),
          cg \in Choice(AdocContents), opt \in SUBSET OptionalFiles :
       \E bad \in SUBSET {SourceIndex, SourceB, SourceGuide} :
          /\ hasDocs \/ (ci = Absent /\ cb = Absent /\ cg = Absent
                         /\ \A t \in opt : ~IsPrefix(DocsRoot, t))
          /\ files = TreeFiles(ci, cb, cg, opt)
          /\ dirs = {cwd} \cup (IF hasDocs THEN {DocsRoot} ELSE {})
                    \cup ParentsOf(DOMAIN TreeFiles(ci, cb, cg, opt))
          /\ bad \subseteq DOMAIN TreeFiles(ci, cb, cg, opt)
          /\ Cardinality(bad) <= MaxUnreadable
          /\ unreadable = bad
    /\ InitRun
    /\ run = 1
    /\ prev = NoReport
    /\ created = {}
    /\ ExtractIdle

(***************************************************************************)
(* main                                                                    *)
(***************************************************************************)
\* a loop over links that ends at the first broken one
RECURSIVE CheckLinksBreak(_, _, _, _)
CheckLinksBreak(file_path, links, i, acc) ==
    IF i > Len(links) THEN acc
    ELSE LET c == check_link_exists(file_path, links[i].url)
         IN  IF ~c.exists
             THEN Append(acc, [source |-> file_path, link |-> links[i].url,
                               text |-> links[i].text, target |-> c.target])
             ELSE CheckLinksBreak(file_path, links, i + 1, acc)

\* the for loop over links: one broken_links record per link whose target
\* does not exist, appended to acc in the order of links
RECURSIVE CheckLinks(_, _, _, _)
CheckLinks(file_path, links, i, acc) ==
    IF i > Len(links) THEN acc
    ELSE LET c == check_link_exists(file_path, links[i].url)
         IN  CheckLinks(file_path, links, i + 1,
                IF ~c.exists
                THEN Append(acc, [source |-> file_path, link |-> links[i].url,
                                  text |-> links[i].text, target |-> c.target])
                ELSE acc)

\* open(file_path) and f.read() succeed
Readable(file_path) ==
    /\ resolve(file_path) \in DOMAIN files
    /\ resolve(file_path) \notin unreadable

FileType(file_path) == IF suffix(file_path) = ".md" THEN "md" ELSE "adoc"

\* the message without the return: main goes on to the loop
MissingRootGoesOn ==
    /\ pc = "start"
    /\ ~exists(resolve(docs_dir))
    /\ out' = Append(out, "not found")
    /\ pc' = "loop"
    /\ UNCHANGED <<files, dirs, unreadable, all_files, processed, total_links,
                   broken_links, ret, run, prev, created>>
    /\ UNCHANGED extractVars

\* docs/ is missing: report it and return 1
MissingRoot ==
    /\ pc = "start"
    /\ ~exists(resolve(docs_dir))
    /\ out' = Append(out, "not found")
    /\ ret' = <<1>>
    /\ pc' = "done"
    /\ UNCHANGED <<files, dirs, unreadable, all_files, processed, total_links,
                   broken_links, run, prev, created>>
    /\ UNCHANGED extractVars

\* docs/ exists: list the files, initialise the tallies
Discover ==
    /\ pc = "start"
    /\ exists(resolve(docs_dir))
    /\ \E om \in rglob(".md"), oa \in rglob(".adoc") :
          all_files' = om \o oa
    /\ broken_links' = <<>>
    /\ total_links' = 0
    /\ out' = Append(out, "checking")
    /\ pc' = "loop"
    /\ UNCHANGED <<files, dirs, unreadable, processed, ret, run, prev, created>>
    /\ UNCHANGED extractVars

\* one iteration of the for loop over all_files
ProcessFile ==
    /\ pc = "loop"
    /\ Len(processed) < Len(all_files)
    /\ LET file_path == all_files[Len(processed) + 1]
           links == extract_links(files[resolve(file_path)],
                                  FileType(file_path))
       IN  /\ Readable(file_path)
           /\ total_links' = total_links + Len(links)
           /\ broken_links' = CheckLinks(file_path, links, 1, broken_links)
           /\ processed' = Append(processed, file_path)
    /\ UNCHANGED <<files, dirs, unreadable, pc, all_files, out, ret, run,
                   prev, created>>
    /\ UNCHANGED extractVars

\* the error caught and the file skipped
ReadFailsSkips ==
    /\ pc = "loop"
    /\ Len(processed) < Len(all_files)
    /\ ~Readable(all_files[Len(processed) + 1])
    /\ processed' = Append(processed, all_files[Len(processed) + 1])
    /\ UNCHANGED <<files, dirs, unreadable, pc, all_files, total_links,
                   broken_links, out, ret, run, prev, created>>
    /\ UNCHANGED extractVars

\* open() or read() raises; nothing in main catches it
ReadFails ==
    /\ pc = "loop"
    /\ Len(processed) < Len(all_files)
    /\ ~Readable(all_files[Len(processed) + 1])
    /\ pc' = "crashed"
    /\ UNCHANGED <<files, dirs, unreadable, all_files, processed, total_links,
                   broken_links, out, ret, run, prev, created>>
    /\ UNCHANGED extractVars

\* a report that returns 0 whatever it lists
ReportReturnsZero ==
    /\ pc = "loop"
    /\ Len(processed) = Len(all_files)
    /\ IF broken_links # <<>>
       THEN out' = out \o <<"results", "broken links">>
       ELSE out' = out \o <<"results", "all valid">>
    /\ ret' = <<0>>
    /\ pc' = "done"
    /\ UNCHANGED <<files, dirs, unreadable, all_files, processed, total_links,
                   broken_links, run, prev, created>>
    /\ UNCHANGED extractVars

\* the prints after the loop and the return value
Report ==
    /\ pc = "loop"
    /\ Len(processed) = Len(all_files)
    /\ IF broken_links # <<>>
       THEN /\ out' = out \o <<"results", "broken links">>
            /\ ret' = <<1>>
       ELSE /\ out' = out \o <<"results", "all valid">>
            /\ ret' = <<0>>
    /\ pc' = "done"
    /\ UNCHANGED <<files, dirs, unreadable, all_files, processed, total_links,
                   broken_links, run, prev, created>>
    /\ UNCHANGED extractVars

\* Between two runs: the target of one broken link of the finished run is
\* created as an empty regular file, with the directories it needs, and the
\* tool is started again.
CreateTargetAndRerun ==
    /\ pc = "done"
    /\ run < MaxRuns
    /\ \E n \in 1..Len(broken_links) :
       LET t == broken_links[n].target
           newDirs == {SubSeq(t, 1, k) : k \in 1..(Len(t) - 1)} \ dirs
       IN  /\ \A k \in 1..Len(t) : SubSeq(t, 1, k) \notin DOMAIN files
           /\ files' = [u \in DOMAIN files \cup {t} |->
                           IF u = t THEN "" ELSE files[u]]
           /\ dirs' = dirs \cup newDirs
           /\ created' = {t} \cup newDirs
    /\ prev' = [valid |-> TRUE, total |-> total_links, broken |-> broken_links]
    /\ run' = run + 1
    /\ pc' = "start"
    /\ all_files' = <<>>
    /\ processed' = <<>>
    /\ total_links' = 0
    /\ broken_links' = <<>>
    /\ out' = <<>>
    /\ ret' = <<>>
    /\ UNCHANGED unreadable
    /\ UNCHANGED extractVars

Next ==
    \/ MissingRoot
    \/ Discover
    \/ ProcessFile
    \/ ReadFails
    \/ Report
    \/ CreateTargetAndRerun

Spec == Init /\ [][Next]_vars

(***************************************************************************)
(* extract_links on its own, over bounded content strings                  *)
(***************************************************************************)
Pieces ==
    {"[a](b)", "[a]", "(b)", "(http://h)", "(https://h)", "(#s)", "(mailto:m)",
     "(b#s)", "[", "]", "(", ")", "x",
     "link:b", "link:http://h", "link:https://h", "link:#s", "link:mailto:m"}

RECURSIVE Concats(_)
Concats(n) ==
    IF n = 0 THEN {""}
    ELSE Concats(n - 1) \cup {c \o q : c \in Concats(n - 1), q \in Pieces}

Contents == Concats(MaxPieces)

InitExtract ==
    /\ files = <<>>
    /\ dirs = {cwd}
    /\ unreadable = {}
    /\ InitRun
    /\ run = 1
    /\ prev = NoReport
    /\ created = {}
    /\ content \in Contents
    /\ file_type \in {"md", "adoc"}
    /\ result = <<>>
    /\ epc = "call"

ExtractCall ==
    /\ epc = "call"
    /\ result' = extract_links(content, file_type)
    /\ epc' = "done"
    /\ UNCHANGED <<content, file_type>>
    /\ UNCHANGED mainVars

NextExtract == ExtractCall

SpecExtract == InitExtract /\ [][NextExtract]_vars

(***************************************************************************)
(* Properties of extract_links                                             *)
(***************************************************************************)
\* the four prefixes of a target that is not an internal file link
HasExternalPrefix(u) ==
    \/ (Len(u) >= 7 /\ SubSeq(u, 1, 7) = "http://")
    \/ (Len(u) >= 8 /\ SubSeq(u, 1, 8) = "https://")
    \/ (Len(u) >= 1 /\ SubSeq(u, 1, 1) = "#")
    \/ (Len(u) >= 7 /\ SubSeq(u, 1, 7) = "mailto:")

\* the target of a match of either pattern
TargetOf(m, ft) == IF ft = "md" THEN m.g2 ELSE m.g1
TextOf(m, ft) == IF ft = "md" THEN m.g1 ELSE m.g2

\* C3: no returned link reference has a target starting with http://,
\* https://, # or mailto:, in either format; the returned list is the list of
\* matches without exactly those whose target has such a prefix, so an
\* excluded match adds nothing to the number of links and every other match
\* is kept, in order.
C3_ExternalTargetsExcluded ==
    epc = "done" =>
        LET ms == findall(content, 1, file_type)
            internal == SelectSeq(ms,
                LAMBDA m : ~HasExternalPrefix(TargetOf(m, file_type)))
        IN  /\ \A n \in 1..Len(result) : ~HasExternalPrefix(result[n].url)
            /\ Len(result) = Len(internal)
            /\ \A n \in 1..Len(internal) :
                  /\ result[n].url = TargetOf(internal[n], file_type)
                  /\ result[n].text = TextOf(internal[n], file_type)

\* a content in which one match is excluded and another one is kept
C3_Witness ==
    /\ epc = "done"
    /\ result # <<>>
    /\ Len(result) < Len(findall(content, 1, file_type))

\* the occurrences of [A](B) in s: i is the place of "[", j of "](" and k of
\* ")", so that A = s[i+1..j-1] and B = s[j+2..k-1]
Occurrences(s) ==
    {o \in [i : {n \in 1..Len(s) : Ch(s, n) = "["},
            j : {n \in 1..Len(s) : Ch(s, n) = "]" /\ Ch(s, n + 1) = "("},
            k : {n \in 1..Len(s) : Ch(s, n) = ")"}] :
        o.i < o.j /\ o.j + 1 < o.k}

OccText(s, o) == SubSeq(s, o.i + 1, o.j - 1)
OccTarget(s, o) == SubSeq(s, o.j + 2, o.k - 1)

\* display-text is non-empty without "]", target is non-empty without ")"
WellShaped(s, o) ==
    /\ OccText(s, o) # ""
    /\ OccTarget(s, o) # ""
    /\ Find(OccText(s, o), "]", 1) = 0
    /\ Find(OccTarget(s, o), ")", 1) = 0

Yields(res, target, text) ==
    \E n \in 1..Len(res) : res[n] = [url |-> target, text |-> text]

\* C4 as stated: whenever Markdown content contains [A](B), A and B of the
\* shape of the Markdown pattern and B without an excluded prefix, the
\* extraction yields the reference with target B and text A.
C4_EveryOccurrenceYielded ==
    (epc = "done" /\ file_type = "md") =>
        \A o \in Occurrences(content) :
            (WellShaped(content, o)
             /\ ~HasExternalPrefix(OccTarget(content, o)))
            => Yields(result, OccTarget(content, o), OccText(content, o))

\* the "[" of the occurrence lies inside a match that starts before it
InsideEarlierMatch(s, o) ==
    LET ms == findall(s, 1, "md")
    IN  \E n \in 1..Len(ms) : ms[n].start < o.i /\ o.i <= ms[n].end

\* C4 (amended): the same, for the occurrences whose "[" is not inside a
\* match of the pattern that starts further left (findall returns the
\* leftmost matches and they do not overlap).
C4_OccurrenceOutsideMatchesYielded ==
    (epc = "done" /\ file_type = "md") =>
        \A o \in Occurrences(content) :
            (WellShaped(content, o)
             /\ ~HasExternalPrefix(OccTarget(content, o))
             /\ ~InsideEarlierMatch(content, o))
            => Yields(result, OccTarget(content, o), OccText(content, o))

\* a link after plain text and an unclosed "(" is extracted as written
C4_Witness ==
    /\ epc = "done"
    /\ file_type = "md"
    /\ content = "x([a](b)"
    /\ result = <<[url |-> "b", text |-> "a"]>>

(***************************************************************************)
(* Properties of a run of main                                             *)
(***************************************************************************)
Range(q) == {q[n] : n \in 1..Len(q)}

\* the number of entries of q that equal r
Count(q, r) == Cardinality({n \in 1..Len(q) : q[n] = r})

DocsExists == resolve(docs_dir) \in dirs \cup DOMAIN files

\* every path the two directory walks yield
Discovered == UNION {Range(w) : w \in rglob(".md") \cup rglob(".adoc")}

\* the internal links of a discovered regular file, as the tool reads them
TreeLinks(f) == extract_links(files[resolve(f)], FileType(f))

\* the place a relative target written in file f points at: the segments of
\* the directory of f below cwd, then those of the target, ".." taking the
\* last one away
PointsAt(f, link) ==
    Normalize(<<>>, cwd \o SubSeq(f.parts, 1, Len(f.parts) - 1)
                        \o ParsePath(link).parts)

\* C1: main returns 0 or 1 when it returns; it returns 0 exactly when docs/
\* exists and no internal link of a discovered file resolves to a missing
\* path; a run that does not return has met a file it could not read.
C1_ExitStatus ==
    /\ pc = "done" =>
          /\ ret \in {<<0>>, <<1>>}
          /\ ret = <<0>> <=>
                (DocsExists /\ \A f \in Discovered :
                    \A n \in 1..Len(TreeLinks(f)) :
                        check_link_exists(f, TreeLinks(f)[n].url).exists)
    /\ pc = "crashed" => \E f \in Discovered : ~Readable(f)
    /\ pc \in {"start", "loop"} => ret = <<>>

\* a run over a tree with links, all of them valid
C1_Witness ==
    /\ pc = "done"
    /\ ret = <<0>>
    /\ total_links >= 2
    /\ Len(processed) >= 2

\* C2: with docs/ missing, the one step main takes prints the "not found"
\* message and returns 1: no file is listed or read, no link is counted, no
\* broken-link record and no results summary is produced.
C2_MissingRootFailsAtOnce ==
    [][(pc = "start" /\ ~DocsExists) =>
          /\ pc' = "done"
          /\ ret' = <<1>>
          /\ out' = <<"not found">>
          /\ all_files' = <<>>
          /\ processed' = <<>>
          /\ total_links' = 0
          /\ broken_links' = <<>>]_vars

C2_Witness ==
    /\ pc = "done"
    /\ ~DocsExists
    /\ <<"c.md">> \in DOMAIN files
    /\ out = <<"not found">>

FileB == [abs |-> FALSE, parts |-> <<"docs", "a", "b.md">>]
DocsC == cwd \o <<"docs", "c.md">>

\* link is reported broken for file f
Reported(f, link) ==
    \E n \in 1..Len(broken_links) :
        broken_links[n].source = f /\ broken_links[n].link = link

C6_RootedTargetUnderSourceDirectory ==
    \A f \in Range(processed) :
        \A link \in {l.url : l \in Range(TreeLinks(f))} :
            LET c == check_link_exists(f, link)
            IN  startswith(link, "/") =>
                    /\ IsPrefix(resolve(parent(f)), c.target)
                    /\ c.target # Normalize(<<>>, ParsePath(link).parts)

\* C6 (amended): a target that begins with "/" replaces the directory of the
\* source file when the two are joined: it resolves to the normalised path
\* it names from the filesystem root, the same for every source file, and is
\* reported broken exactly when that path does not exist.
C6_RootedTargetFromFilesystemRoot ==
    \A f \in Range(processed) :
        \A link \in {l.url : l \in Range(TreeLinks(f))} :
            LET c == check_link_exists(f, link)
            IN  startswith(link, "/") =>
                    /\ c.target = Normalize(<<>>, ParsePath(link).parts)
                    /\ c.exists <=>
                          Normalize(<<>>, ParsePath(link).parts)
                              \in dirs \cup DOMAIN files \cup {<<>>}
                    /\ Reported(f, link) <=> ~c.exists

\* a file links to /c.md, only /c.md of the filesystem root exists, and the
\* link is not reported
C6_Witness ==
    /\ pc = "done"
    /\ <<"c.md">> \in DOMAIN files
    /\ DocsC \notin DOMAIN files
    /\ \E f \in Range(processed) :
          /\ \E n \in 1..Len(TreeLinks(f)) : TreeLinks(f)[n].url = "/c.md"
          /\ ~Reported(f, "/c.md")

FragLink == "other.md#section"

\* C10: a target with a path and a fragment is extracted as written and
\* checked as the path with the "#fragment" kept in its last segment: it is
\* reported broken unless a file of that literal name exists, so also when
\* the file named by the part before "#" exists.
C10_FragmentKept ==
    \A f \in Range(processed) :
        files[resolve(f)]
            = "[Frag](other.md#section), [Ext](https://example.com/x)"
        => LET c == check_link_exists(f, FragLink)
           IN  /\ TreeLinks(f) = <<[url |-> FragLink, text |-> "Frag"]>>
               /\ c.target = resolve(parent(f)) \o <<FragLink>>
               /\ c.target \notin DOMAIN files =>
                     \E n \in 1..Len(broken_links) :
                         broken_links[n] =
                             [source |-> f, link |-> FragLink,
                              text |-> "Frag", target |-> c.target]

\* docs/other.md exists and the link to other.md#section is reported
C10_Witness ==
    /\ pc = "done"
    /\ cwd \o <<"docs", "other.md">> \in DOMAIN files
    /\ \E n \in 1..Len(broken_links) :
          /\ broken_links[n].link = FragLink
          /\ broken_links[n].target = cwd \o <<"docs", FragLink>>

\* the record main keeps for the link l of file f
RecordOf(f, l) ==
    [source |-> f, link |-> l.url, text |-> l.text,
     target |-> check_link_exists(f, l.url).target]

\* the records of all links of the files fs[i..], file after file, link after
\* link
RECURSIVE AllRecords(_, _)
AllRecords(fs, i) ==
    IF i > Len(fs) THEN <<>>
    ELSE LET links == TreeLinks(fs[i])
         IN  [n \in 1..Len(links) |-> RecordOf(fs[i], links[n])]
             \o AllRecords(fs, i + 1)

\* C8: while main runs and when it has returned with docs/ present, the
\* processed files are a duplicate-free prefix of the discovered list,
\* total_links is the number of internal links of the processed files, and
\* broken_links holds, in processing order, exactly the records (source,
\* raw target, text, resolved path) of those links whose resolved path does
\* not exist; at the end every discovered file has been processed.  The
\* loop stops early only at a file that cannot be read.
C8_BrokenLinksAccumulated ==
    /\ pc \in {"loop", "done", "crashed"} =>
          LET records == AllRecords(processed, 1)
          IN  /\ Len(processed) <= Len(all_files)
              /\ processed = SubSeq(all_files, 1, Len(processed))
              /\ \A i, j \in 1..Len(all_files) :
                    i # j => all_files[i] # all_files[j]
              /\ total_links = Len(records)
              /\ broken_links =
                    SelectSeq(records,
                        LAMBDA r : r.target \notin dirs \cup DOMAIN files)
    /\ (pc = "done" /\ DocsExists) =>
          /\ processed = all_files
          /\ Range(all_files) = Discovered
    /\ pc = "crashed" => ~Readable(all_files[Len(processed) + 1])

\* a finished run over several files with broken and valid links, where
\* a broken link is followed by further links
C8_Witness ==
    /\ pc = "done"
    /\ Len(processed) >= 3
    /\ Len(broken_links) >= 2
    /\ total_links >= Len(broken_links) + 2
    /\ broken_links[1].source # broken_links[Len(broken_links)].source

\* C9: in a run whose discovered list holds a file that cannot be read, main
\* never returns and prints neither the results summary nor the list of
\* broken links, whatever it has processed before; the loop does not go
\* past that file.
C9_UnreadableFileAborts ==
    (\E n \in 1..Len(all_files) : ~Readable(all_files[n])) =>
        /\ pc # "done"
        /\ ret = <<>>
        /\ Range(out) \subseteq {"checking"}
        /\ \A f \in Range(processed) : Readable(f)

\* the run has stopped at an unreadable file after counting links and
\* finding one broken
C9_Witness ==
    /\ pc = "crashed"
    /\ Len(processed) >= 1
    /\ total_links >= 1
    /\ broken_links # <<>>
    /\ ret = <<>>

\* C7 as stated: after the target of one broken link is created and the tool
\* is run again, the broken count is one less than before, the links
\* reported are among those reported before, and the total is unchanged.
C7_RerunOneLess ==
    (pc = "done" /\ prev.valid) =>
        /\ Len(broken_links) = Len(prev.broken) - 1
        /\ Range(broken_links) \subseteq Range(prev.broken)
        /\ total_links = prev.total

\* C7 (amended): after the target of one broken link is created as an empty
\* file, with the directories it needs, and the tool is run again to its
\* end, the total is unchanged and the broken-link records are those of the
\* run before without the records whose resolved path was created: every
\* broken link that resolves to a created path leaves the list, so the count
\* drops by the number of those links, which is at least one.
C7_RerunWithoutCreated ==
    (pc = "done" /\ prev.valid) =>
        /\ total_links = prev.total
        /\ \A r \in Range(prev.broken) \cup Range(broken_links) :
              Count(broken_links, r) =
                  IF r.target \in created THEN 0 ELSE Count(prev.broken, r)
        /\ Len(prev.broken) - Len(broken_links) =
              Cardinality({n \in 1..Len(prev.broken) :
                              prev.broken[n].target \in created})
        /\ Len(broken_links) < Len(prev.broken)

\* a second run after which two links have left the list, others remaining
C7_Witness ==
    /\ pc = "done"
    /\ prev.valid
    /\ Len(broken_links) = Len(prev.broken) - 2
    /\ broken_links # <<>>

====
